---- MODULE Spec2Model ----
(***************************************************************************)
(* A model of acl::shared_mutex (Mutex/shared_mutex.h) and of the          *)
(* thread-safe ordered map acl::TSMap (DataStructures/TSMap.tcc).          *)
(*                                                                         *)
(* The header declares the lock's state (two std::mutex, m_read and        *)
(* m_mutex, and the atomic counter readers) and its six operations; the    *)
(* bodies of the operations are not part of the sources at hand and are    *)
(* modelled from the specification's section 4.1: m_read is the gate a     *)
(* pending or holding writer keeps closed, m_mutex is the exclusive-held   *)
(* state, readers is the number of shared holders.                         *)
(*                                                                         *)
(* A thread runs one public TSMap operation at a time.  The statements of  *)
(* an operation's body are separate steps, labelled by the line of         *)
(* TSMap.tcc they model, so that what the guard of the operation excludes  *)
(* is decided by the lock and not by the grain of the model.               *)
(***************************************************************************)
EXTENDS Integers, Sequences, FiniteSets, TLC

\* ------------------------------------------------------------------ bounds
NumThreads == 2
MaxKey == 2
MaxVal == 1
MaxSerialKey == 3
NumLockThreads == 3

Threads == 1..NumThreads
Keys == 1..MaxKey
\* Value is an integer type here; Value{} is 0, which is also a storable value.
DefaultValue == 0
Vals == DefaultValue..MaxVal

\* No thread: the state of an unlocked std::mutex.
Free == 0

VARIABLES
    m_map,      \* TSMap::m_map: the entries, a sequence sorted by key
    m_read,     \* shared_mutex::m_read: Free or the thread that closed the gate
    m_mutex,    \* shared_mutex::m_mutex: Free or the exclusive holder
    readers,    \* shared_mutex::readers: the number of shared holders
    pc,         \* where each thread is
    frame,      \* each thread's call: operation, arguments, locals, result
    ref_map,    \* history: the map of the single-threaded reference execution
    ref_ret,    \* history: what the reference execution returned to each call
    lastExit,   \* history: how the call that returned last left its body
    pre,        \* history: the map as it was when each thread's body started
    hist        \* history: by key, the last emplace of it, unless written since

vars ==
    <<m_map, m_read, m_mutex, readers, pc, frame, ref_map, ref_ret, lastExit,
      pre, hist>>
lockVars == <<m_read, m_mutex, readers>>
\* What the lock's operations leave alone, but for the frames.
restVars == <<m_map, ref_map, ref_ret, lastExit, pre, hist>>
mapVars == <<frame, restVars>>

\* ------------------------------------------------------- the lock (4.1)

\* lock(), first half: the caller closes the gate to new readers and is pending.
lock_pending(t) ==
    /\ m_read = Free
    /\ m_read' = t
    /\ UNCHANGED <<m_mutex, readers>>

\* A lock() that does not wait for the shared holders to leave.
lock_ignoring_readers(t) ==
    /\ m_read = t
    /\ m_mutex = Free
    /\ m_mutex' = t
    /\ UNCHANGED <<m_read, readers>>

\* lock(), second half: blocks until no shared or exclusive holder remains,
\* then marks exclusive-held.
lock(t) ==
    /\ m_read = t
    /\ m_mutex = Free
    /\ readers = 0
    /\ m_mutex' = t
    /\ UNCHANGED <<m_read, readers>>

\* try_lock(): non-blocking; ok says whether exclusive ownership was acquired.
try_lock(t, ok) ==
    /\ ok = (m_read = Free /\ m_mutex = Free /\ readers = 0)
    /\ IF ok
          THEN m_read' = t /\ m_mutex' = t /\ UNCHANGED readers
          ELSE UNCHANGED lockVars

\* unlock(): clears exclusive-held and opens the gate (all waiters are eligible).
unlock(t) ==
    /\ m_mutex' = Free
    /\ m_read' = Free
    /\ UNCHANGED readers

\* A lock_shared() that looks at the exclusive holder only, not at the gate.
lock_shared_ignoring_gate(t) ==
    /\ m_mutex = Free
    /\ readers' = readers + 1
    /\ UNCHANGED <<m_read, m_mutex>>

\* lock_shared(): blocks while an exclusive holder is active or a writer is
\* pending, then increments the number of shared holders.
lock_shared(t) ==
    /\ m_read = Free
    /\ m_mutex = Free
    /\ readers' = readers + 1
    /\ UNCHANGED <<m_read, m_mutex>>

\* try_lock_shared(): fails if an exclusive holder is active or a writer pending.
try_lock_shared(t, ok) ==
    /\ ok = (m_read = Free /\ m_mutex = Free)
    /\ IF ok
          THEN readers' = readers + 1 /\ UNCHANGED <<m_read, m_mutex>>
          ELSE UNCHANGED lockVars

\* unlock_shared(): decrements the number of shared holders.
unlock_shared(t) ==
    /\ readers' = readers - 1
    /\ UNCHANGED <<m_read, m_mutex>>

\* ------------------------------------------- std::map, as TSMap uses it

\* end(): the position after the last entry.  Positions are 1..Len(m).
End(m) == Len(m) + 1

KeysOf(m) == {m[i].key : i \in 1..Len(m)}

\* m_map.find(k): the position of the entry with key k, or end().
MapFind(m, k) ==
    IF \E i \in 1..Len(m) : m[i].key = k
       THEN CHOOSE i \in 1..Len(m) : m[i].key = k
       ELSE End(m)

\* m_map.lower_bound(k): the first position whose key is not less than k.
MapLowerBound(m, k) ==
    IF \E i \in 1..Len(m) : ~(m[i].key < k)
       THEN CHOOSE i \in 1..Len(m) :
               ~(m[i].key < k) /\ \A j \in 1..(i - 1) : m[j].key < k
       ELSE End(m)

\* m_map.erase(it): the entry at position i is removed; the next entry takes
\* its position.
MapEraseAt(m, i) == SubSeq(m, 1, i - 1) \o SubSeq(m, i + 1, Len(m))

\* m_map.erase(k): removes the entry with key k, if any.
MapErase(m, k) == IF MapFind(m, k) = End(m) THEN m ELSE MapEraseAt(m, MapFind(m, k))

\* m_map.erase(k)'s result: the number of entries removed.
MapEraseCount(m, k) == IF MapFind(m, k) = End(m) THEN 0 ELSE 1

\* m_map.emplace(k, v): inserts at the position the comparison (k1 < k2) gives
\* unless an entry with an equivalent key exists; second says whether it did.
MapEmplace(m, k, v) ==
    IF \E i \in 1..Len(m) : ~(m[i].key < k) /\ ~(k < m[i].key)
       THEN [map |-> m, second |-> FALSE]
       ELSE LET p == MapLowerBound(m, k)
            IN  [map |-> SubSeq(m, 1, p - 1) \o <<[key |-> k, val |-> v]>>
                             \o SubSeq(m, p, Len(m)),
                 second |-> TRUE]

\* it->second = v through a Value& the caller holds.
MapAssignAt(m, i, v) == [m EXCEPT ![i].val = v]

\* m_map[k] = v: operator[] inserts a default entry when k is missing, and the
\* entry is assigned.
MapIndexAssign(m, k, v) ==
    IF MapFind(m, k) = End(m)
       THEN MapEmplace(m, k, v).map
       ELSE MapAssignAt(m, MapFind(m, k), v)

\* begin(): the position of the first entry (end() when there is none).
Begin(m) == 1

\* --------------------------------------------------- the user's callbacks

\* std::function values a caller passes: "none" is an unset (nullptr) function,
\* "bump" writes through its Value& and reports success, "bump_veto" writes
\* through its Value& and reports failure, "even" reports whether the key is even.
Fns == {"none", "accept", "veto", "throw", "bump", "bump_veto", "even"}
\* Callbacks taking a const Value& cannot write the entry.
ConstFns == {"none", "accept", "veto", "throw", "even"}

\* What calling f(k, v) does: returns true or false, or throws.  Calling an
\* unset std::function throws std::bad_function_call.
FnOutcome(f, k, v) ==
    CASE f = "accept"    -> "true"
      [] f = "bump"      -> "true"
      [] f = "veto"      -> "false"
      [] f = "bump_veto" -> "false"
      [] f = "even"      -> IF k % 2 = 0 THEN "true" ELSE "false"
      [] f = "calls_find"    -> "true"
      [] f = "calls_emplace" -> "true"
      [] OTHER           -> "throw"

\* The value f(k, v) leaves in the entry.
FnValue(f, k, v) ==
    IF f \in {"bump", "bump_veto"} THEN (v + 1) % (MaxVal + 1) ELSE v

\* ------------------------------------------------- TSMap: the operations

\* The guard each public operation constructs on entry: std::lock_guard takes
\* the lock exclusively, acl::shared_lock takes it shared.
SharedGuardEverywhere(op) == "shared_lock"

\* Every operation under std::lock_guard, the reading ones too.
ExclusiveGuardEverywhere(op) == "lock_guard"

Guard(op) ==
    CASE op = "find"            -> "shared_lock"
      [] op = "lower_bound"     -> "shared_lock"
      [] op = "lower_bound_key" -> "shared_lock"
      [] op = "findInfimum"     -> "shared_lock"
      [] op = "findInfimum_key" -> "shared_lock"
      [] op = "size"            -> "shared_lock"
      [] op = "empty"           -> "shared_lock"
      [] op = "getKeyList"      -> "shared_lock"
      [] op = "emplace"         -> "lock_guard"
      [] op = "createInPlace"   -> "lock_guard"
      [] op = "replace"         -> "lock_guard"
      [] op = "erase"           -> "lock_guard"
      [] op = "remove"          -> "lock_guard"
      [] op = "perform"         -> "lock_guard"
      [] op = "perform_ro"      -> "shared_lock"
      [] op = "clear"           -> "lock_guard"
      [] op = "for_each_ro"     -> "shared_lock"
      [] op = "for_each"        -> "lock_guard"
      [] op = "delete_if"       -> "lock_guard"
      [] OTHER                  -> "none"

\* The operations declared const: they only read m_map.
ReadOps ==
    {"find", "lower_bound", "lower_bound_key", "findInfimum", "findInfimum_key",
     "size", "empty", "getKeyList", "perform_ro", "for_each_ro"}

\* The operations that may write m_map.
WriteOps ==
    {"emplace", "createInPlace", "replace", "erase", "remove", "perform",
     "clear", "for_each", "delete_if"}

Ops == ReadOps \cup WriteOps

\* Key{}: the key the *_key lookups hand back when they find nothing.
DefaultKey == 0

\* What a call returned: val is the Value (or the count), ok the bool, key the
\* Key of a *_key lookup, list the vector of getKeyList, and how says which way
\* the body was left.
NoRet == [val |-> 0, ok |-> FALSE, key |-> 0, list |-> <<>>, how |-> "none"]

\* No emplace of the key is on record.
NoHist == [set |-> FALSE, v |-> 0, force |-> FALSE, ok |-> FALSE]

\* A thread that is in no call.
NoFrame ==
    [op |-> "none", k |-> 0, v |-> 0, force |-> FALSE, f |-> "none",
     line |-> 0, it |-> 0, num |-> 0, newVal |-> 0, keyList |-> <<>>,
     calls |-> <<>>, ret |-> NoRet]

\* The first statement after the guard, by operation.
FirstLine(op) ==
    CASE op = "find"            -> 102
      [] op = "lower_bound"     -> 121
      [] op = "lower_bound_key" -> 141
      [] op = "findInfimum"     -> 161
      [] op = "findInfimum_key" -> 189
      [] op = "size"            -> 212
      [] op = "empty"           -> 223
      [] op = "getKeyList"      -> 232
      [] op = "emplace"         -> 255
      [] op = "createInPlace"   -> 275
      [] op = "replace"         -> 298
      [] op = "erase"           -> 321
      [] op = "remove"          -> 345
      [] op = "perform"         -> 367
      [] op = "perform_ro"      -> 387
      [] op = "clear"           -> 403
      [] op = "for_each_ro"     -> 424
      [] op = "for_each"        -> 445
      [] op = "delete_if"       -> 467
      [] OTHER                  -> 0

\* The frame of a call that has just constructed its guard.
Enter(op, k, v, force, f) ==
    [op |-> op, k |-> k, v |-> v, force |-> force, f |-> f,
     line |-> FirstLine(op), it |-> 0, num |-> 0, newVal |-> 0,
     keyList |-> <<>>, calls |-> <<>>, ret |-> NoRet]

\* The frame after f was called with key k: calls is the history of the keys
\* the callback was invoked with (an unset std::function invokes nothing).
Invoke(fr, k) ==
    IF fr.f = "none" THEN fr ELSE [fr EXCEPT !.calls = Append(fr.calls, k)]

\* The arguments each operation takes, with keys from K; the others keep
\* NoFrame's values.
CallsOver(K) ==
    {Enter(op, k, 0, FALSE, "none") :
        op \in {"find", "lower_bound", "lower_bound_key", "findInfimum",
                "findInfimum_key", "remove"},
        k \in K}
    \cup {Enter(op, 0, 0, FALSE, "none") :
             op \in {"size", "empty", "getKeyList", "clear"}}
    \cup {Enter(op, k, v, force, "none") :
             op \in {"emplace", "replace"},
             k \in K, v \in Vals, force \in BOOLEAN}
    \cup {Enter("createInPlace", k, v, FALSE, "none") : k \in K, v \in Vals}
    \cup {Enter(op, k, 0, FALSE, f) :
             op \in {"erase", "perform"}, k \in K, f \in Fns}
    \cup {Enter("perform_ro", k, 0, FALSE, f) : k \in K, f \in ConstFns}
    \cup {Enter(op, 0, 0, FALSE, f) : op \in {"for_each", "delete_if"}, f \in Fns}
    \cup {Enter("for_each_ro", 0, 0, FALSE, f) : f \in ConstFns}

\* The calls the threads that share the map make.
Calls == CallsOver(Keys)

\* One statement of a body leaves the map and the frame in a new state.
Goto(m, fr, line) == [map |-> m, fr |-> [fr EXCEPT !.line = line]]

\* return: line 0 is outside every body.
Return(m, fr, val, ok, how) ==
    [map |-> m,
     fr |-> [fr EXCEPT !.line = 0,
                       !.ret = [val |-> val, ok |-> ok, key |-> DefaultKey,
                                list |-> <<>>, how |-> how]]]

\* return std::make_pair(std::make_pair(key, val), ok).
ReturnPair(m, fr, key, val, ok) ==
    [map |-> m,
     fr |-> [fr EXCEPT !.line = 0,
                       !.ret = [val |-> val, ok |-> ok, key |-> key,
                                list |-> <<>>, how |-> "return"]]]

\* return keyList.
ReturnList(m, fr, list) ==
    [map |-> m,
     fr |-> [fr EXCEPT !.line = 0,
                       !.ret = [val |-> 0, ok |-> FALSE, key |-> DefaultKey,
                                list |-> list, how |-> "return"]]]

\* An exception leaves the body; the result is never delivered.
Throw(m, fr) == Return(m, fr, 0, FALSE, "throw")

\* A find that hands back it->first where it->second is meant.
find_returning_first(m, fr) ==
    LET it == MapFind(m, fr.k)
    IN  IF it # End(m)
           THEN Return(m, fr, m[it].key, TRUE, "return")
           ELSE Return(m, fr, DefaultValue, FALSE, "return")

\* find(k), lines 98-108.
find(m, fr) ==
    LET it == MapFind(m, fr.k)
    IN  IF it # End(m)
           THEN Return(m, fr, m[it].val, TRUE, "return")
           ELSE Return(m, fr, DefaultValue, FALSE, "return")

\* lower_bound(k), lines 117-127.
lower_bound(m, fr) ==
    LET it == MapLowerBound(m, fr.k)
    IN  IF it # End(m)
           THEN Return(m, fr, m[it].val, TRUE, "return")
           ELSE Return(m, fr, DefaultValue, FALSE, "return")

\* lower_bound_key(k), lines 136-147.
lower_bound_key(m, fr) ==
    LET it == MapLowerBound(m, fr.k)
    IN  IF it # End(m)
           THEN ReturnPair(m, fr, m[it].key, m[it].val, TRUE)
           ELSE ReturnPair(m, fr, DefaultKey, DefaultValue, FALSE)

\* A findInfimum that hands back the entry lower_bound found, with no step back.
findInfimum_without_step_back(m, fr) ==
    LET it == MapLowerBound(m, fr.k)
    IN  IF it # End(m)
           THEN Return(m, fr, m[it].val, TRUE, "return")
           ELSE Return(m, fr, DefaultValue, FALSE, "return")

\* findInfimum(k), lines 157-175.
findInfimum(m, fr) ==
    LET it == MapLowerBound(m, fr.k)
    IN  IF it # End(m) /\ m[it].key = fr.k
           THEN Return(m, fr, m[it].val, TRUE, "return")
           ELSE IF it = Begin(m)
                   THEN Return(m, fr, DefaultValue, FALSE, "return")
                   ELSE Return(m, fr, m[it - 1].val, TRUE, "return")

\* findInfimum_key(k), lines 185-203.
findInfimum_key(m, fr) ==
    LET it == MapLowerBound(m, fr.k)
    IN  IF it # End(m) /\ m[it].key = fr.k
           THEN ReturnPair(m, fr, m[it].key, m[it].val, TRUE)
           ELSE IF it = Begin(m)
                   THEN ReturnPair(m, fr, DefaultKey, DefaultValue, FALSE)
                   ELSE ReturnPair(m, fr, m[it - 1].key, m[it - 1].val, TRUE)

\* size(), lines 208-214.
size(m, fr) == Return(m, fr, Len(m), FALSE, "return")

\* empty(), lines 219-224.
empty(m, fr) == Return(m, fr, 0, Len(m) = 0, "return")

\* getKeyList(), lines 226-236: one push_back a step.
getKeyList(m, fr) ==
    CASE fr.line = 232 ->
            IF Begin(m) # End(m)
               THEN Goto(m, [fr EXCEPT !.it = Begin(m)], 233)
               ELSE ReturnList(m, fr, fr.keyList)
      [] OTHER ->
            LET list == Append(fr.keyList, m[fr.it].key)
            IN  IF fr.it + 1 # End(m)
                   THEN Goto(m, [fr EXCEPT !.it = fr.it + 1, !.keyList = list], 233)
                   ELSE ReturnList(m, fr, list)

\* An emplace that inserts without erasing a present entry first.
emplace_without_erase(m, fr) ==
    CASE fr.line = 255 ->
            IF ~fr.force /\ MapFind(m, fr.k) # End(m)
               THEN Return(m, fr, 0, FALSE, "early")
               ELSE Goto(m, fr, 258)
      [] fr.line = 258 -> Goto(m, fr, 260)
      [] OTHER ->
            LET r == MapEmplace(m, fr.k, fr.v)
            IN  Return(r.map, fr, 0, r.second, "return")

\* An emplace that replaces a present entry also when force is false.
emplace_always_forced(m, fr) ==
    CASE fr.line = 255 -> Goto(m, fr, 258)
      [] fr.line = 258 -> Goto(MapErase(m, fr.k), fr, 260)
      [] OTHER ->
            LET r == MapEmplace(m, fr.k, fr.v)
            IN  Return(r.map, fr, 0, r.second, "return")

\* emplace(k, v, force), lines 250-261.
emplace(m, fr) ==
    CASE fr.line = 255 ->
            IF ~fr.force /\ MapFind(m, fr.k) # End(m)
               THEN Return(m, fr, 0, FALSE, "early")
               ELSE Goto(m, fr, 258)
      [] fr.line = 258 -> Goto(MapErase(m, fr.k), fr, 260)
      [] OTHER ->
            LET r == MapEmplace(m, fr.k, fr.v)
            IN  Return(r.map, fr, 0, r.second, "return")

\* createInPlace(k, args...), lines 270-279: the Value is built from args.
createInPlace(m, fr) ==
    LET ret == MapEmplace(m, fr.k, fr.v)
    IN  Return(ret.map, fr, 0, ret.second, "return")

\* A replace that hands back the value it was given when it overwrites.
replace_returning_argument(m, fr) ==
    CASE fr.line = 298 ->
            LET it == MapEmplace(m, fr.k, fr.v)
            IN  IF ~it.second
                   THEN Goto(it.map, [fr EXCEPT !.it = MapFind(it.map, fr.k),
                                                !.newVal = fr.v], 301)
                   ELSE Return(it.map, fr, fr.v, TRUE, "return")
      [] fr.line = 301 ->
            IF fr.force
               THEN Goto(m, fr, 303)
               ELSE Return(m, fr, m[fr.it].val, FALSE, "return")
      [] OTHER ->
            Return(MapIndexAssign(m, fr.k, fr.v), fr, fr.newVal, FALSE, "return")

\* A replace that overwrites the entry also when force is false.
replace_ignoring_force(m, fr) ==
    CASE fr.line = 298 ->
            LET it == MapEmplace(m, fr.k, fr.v)
            IN  IF ~it.second
                   THEN Goto(it.map, [fr EXCEPT !.it = MapFind(it.map, fr.k),
                                                !.newVal = fr.v], 301)
                   ELSE Return(it.map, fr, fr.v, TRUE, "return")
      [] fr.line = 301 -> Goto(m, [fr EXCEPT !.newVal = m[fr.it].val], 303)
      [] OTHER ->
            Return(MapIndexAssign(m, fr.k, fr.v), fr, fr.newVal, FALSE, "return")

\* replace(k, v, force), lines 293-307.  newVal is what the call returns: v
\* after an insertion, the value found under k otherwise.
replace(m, fr) ==
    CASE fr.line = 298 ->
            LET it == MapEmplace(m, fr.k, fr.v)
            IN  IF ~it.second
                   THEN Goto(it.map, [fr EXCEPT !.it = MapFind(it.map, fr.k),
                                                !.newVal = fr.v], 301)
                   ELSE Return(it.map, fr, fr.v, TRUE, "return")
      [] fr.line = 301 ->
            IF fr.force
               THEN Goto(m, [fr EXCEPT !.newVal = m[fr.it].val], 303)
               ELSE Return(m, fr, m[fr.it].val, FALSE, "return")
      [] OTHER ->
            Return(MapIndexAssign(m, fr.k, fr.v), fr, fr.newVal, FALSE, "return")

\* An erase that removes the entry whatever the callback answers.
erase_ignoring_veto(m, fr) ==
    CASE fr.line = 321 ->
            IF MapFind(m, fr.k) = End(m)
               THEN Return(m, fr, 0, FALSE, "early")
               ELSE Goto(m, [fr EXCEPT !.it = MapFind(m, fr.k)], 328)
      [] fr.line = 328 ->
            IF fr.f = "none"
               THEN Goto(m, fr, 329)
               ELSE LET out == FnOutcome(fr.f, fr.k, m[fr.it].val)
                        m2 == MapAssignAt(m, fr.it, FnValue(fr.f, fr.k, m[fr.it].val))
                    IN  IF out = "throw"
                           THEN Throw(m, Invoke(fr, fr.k))
                           ELSE Goto(m2, Invoke(fr, fr.k), 329)
      [] OTHER ->
            Return(MapErase(m, fr.k), fr, 0, MapEraseCount(m, fr.k) = 1, "return")

\* erase(k, f), lines 317-333.  The callback gets the entry's Value&.
erase(m, fr) ==
    CASE fr.line = 321 ->
            IF MapFind(m, fr.k) = End(m)
               THEN Return(m, fr, 0, FALSE, "early")
               ELSE Goto(m, [fr EXCEPT !.it = MapFind(m, fr.k)], 328)
      [] fr.line = 328 ->
            IF fr.f = "none"
               THEN Goto(m, fr, 329)
               ELSE LET out == FnOutcome(fr.f, fr.k, m[fr.it].val)
                        m2 == MapAssignAt(m, fr.it, FnValue(fr.f, fr.k, m[fr.it].val))
                    IN  CASE out = "throw" -> Throw(m, Invoke(fr, fr.k))
                          [] out = "true"  -> Goto(m2, Invoke(fr, fr.k), 329)
                          [] OTHER         ->
                                Return(m2, Invoke(fr, fr.k), 0, FALSE, "veto")
      [] OTHER ->
            Return(MapErase(m, fr.k), fr, 0, MapEraseCount(m, fr.k) = 1, "return")

\* A remove that hands back the value and leaves the entry in the map.
remove_keeping_entry(m, fr) ==
    CASE fr.line = 345 ->
            IF MapFind(m, fr.k) # End(m)
               THEN Goto(m, [fr EXCEPT !.it = MapFind(m, fr.k)], 349)
               ELSE Return(m, fr, DefaultValue, FALSE, "return")
      [] fr.line = 349 -> Goto(m, [fr EXCEPT !.newVal = m[fr.it].val], 350)
      [] OTHER -> Return(m, fr, fr.newVal, TRUE, "return")

\* remove(k), lines 341-354.
remove(m, fr) ==
    CASE fr.line = 345 ->
            IF MapFind(m, fr.k) # End(m)
               THEN Goto(m, [fr EXCEPT !.it = MapFind(m, fr.k)], 349)
               ELSE Return(m, fr, DefaultValue, FALSE, "return")
      [] fr.line = 349 -> Goto(m, [fr EXCEPT !.newVal = m[fr.it].val], 350)
      [] OTHER -> Return(MapErase(m, fr.k), fr, fr.newVal, TRUE, "return")

\* A perform that reports success whenever it has called f.
perform_ignoring_result(m, fr) ==
    CASE fr.line = 367 ->
            IF MapFind(m, fr.k) = End(m) \/ fr.f = "none"
               THEN Return(m, fr, 0, FALSE, "early")
               ELSE Goto(m, [fr EXCEPT !.it = MapFind(m, fr.k)], 373)
      [] OTHER ->
            LET out == FnOutcome(fr.f, fr.k, m[fr.it].val)
                m2 == MapAssignAt(m, fr.it, FnValue(fr.f, fr.k, m[fr.it].val))
            IN  IF out = "throw"
                   THEN Throw(m, Invoke(fr, fr.k))
                   ELSE Return(m2, Invoke(fr, fr.k), 0, TRUE, "return")

\* perform(k, f), lines 363-374.  The callback gets the entry's Value&.
perform(m, fr) ==
    CASE fr.line = 367 ->
            IF MapFind(m, fr.k) = End(m) \/ fr.f = "none"
               THEN Return(m, fr, 0, FALSE, "early")
               ELSE Goto(m, [fr EXCEPT !.it = MapFind(m, fr.k)], 373)
      [] OTHER ->
            LET out == FnOutcome(fr.f, fr.k, m[fr.it].val)
                m2 == MapAssignAt(m, fr.it, FnValue(fr.f, fr.k, m[fr.it].val))
            IN  IF out = "throw"
                   THEN Throw(m, Invoke(fr, fr.k))
                   ELSE Return(m2, Invoke(fr, fr.k), 0, out = "true", "return")

\* perform_ro(k, f), lines 383-394.  The callback gets a const Value&.
perform_ro(m, fr) ==
    CASE fr.line = 387 ->
            IF MapFind(m, fr.k) = End(m) \/ fr.f = "none"
               THEN Return(m, fr, 0, FALSE, "early")
               ELSE Goto(m, [fr EXCEPT !.it = MapFind(m, fr.k)], 393)
      [] OTHER ->
            LET out == FnOutcome(fr.f, fr.k, m[fr.it].val)
            IN  IF out = "throw"
                   THEN Throw(m, Invoke(fr, fr.k))
                   ELSE Return(m, Invoke(fr, fr.k), 0, out = "true", "return")

\* clear(), lines 399-404.
clear(m, fr) == Return(<<>>, fr, 0, FALSE, "return")

\* for_each_ro(f), lines 418-430: one callback a step, through a const Value&.
for_each_ro(m, fr) ==
    CASE fr.line = 424 ->
            IF 1 # End(m)
               THEN Goto(m, [fr EXCEPT !.it = 1], 425)
               ELSE Return(m, fr, fr.num, TRUE, "return")
      [] OTHER ->
            LET out == FnOutcome(fr.f, m[fr.it].key, m[fr.it].val)
                fr2 == Invoke(fr, m[fr.it].key)
                n == IF out = "true" THEN fr.num + 1 ELSE fr.num
            IN  IF out = "throw"
                   THEN Throw(m, fr2)
                   ELSE IF fr.it + 1 # End(m)
                           THEN Goto(m, [fr2 EXCEPT !.it = fr.it + 1, !.num = n], 425)
                           ELSE Return(m, fr2, n, TRUE, "return")

\* A for_each that counts the calls of f, not the calls f answered true.
for_each_counting_calls(m, fr) ==
    CASE fr.line = 445 ->
            IF 1 # End(m)
               THEN Goto(m, [fr EXCEPT !.it = 1], 446)
               ELSE Return(m, fr, fr.num, TRUE, "return")
      [] OTHER ->
            LET out == FnOutcome(fr.f, m[fr.it].key, m[fr.it].val)
                fr2 == Invoke(fr, m[fr.it].key)
                m2 == MapAssignAt(m, fr.it,
                                  FnValue(fr.f, m[fr.it].key, m[fr.it].val))
                n == fr.num + 1
            IN  IF out = "throw"
                   THEN Throw(m, fr2)
                   ELSE IF fr.it + 1 # End(m2)
                           THEN Goto(m2, [fr2 EXCEPT !.it = fr.it + 1, !.num = n], 446)
                           ELSE Return(m2, fr2, n, TRUE, "return")

\* for_each(f), lines 439-451: one callback a step, through a Value&.
for_each(m, fr) ==
    CASE fr.line = 445 ->
            IF 1 # End(m)
               THEN Goto(m, [fr EXCEPT !.it = 1], 446)
               ELSE Return(m, fr, fr.num, TRUE, "return")
      [] OTHER ->
            LET out == FnOutcome(fr.f, m[fr.it].key, m[fr.it].val)
                fr2 == Invoke(fr, m[fr.it].key)
                m2 == MapAssignAt(m, fr.it,
                                  FnValue(fr.f, m[fr.it].key, m[fr.it].val))
                n == IF out = "true" THEN fr.num + 1 ELSE fr.num
            IN  IF out = "throw"
                   THEN Throw(m, fr2)
                   ELSE IF fr.it + 1 # End(m2)
                           THEN Goto(m2, [fr2 EXCEPT !.it = fr.it + 1, !.num = n], 446)
                           ELSE Return(m2, fr2, n, TRUE, "return")

\* A delete_if that steps forward after erasing, past the entry that took the
\* erased entry's position.
delete_if_stepping_after_erase(m, fr) ==
    CASE fr.line = 467 ->
            IF Begin(m) # End(m)
               THEN Goto(m, [fr EXCEPT !.it = Begin(m)], 468)
               ELSE Return(m, fr, fr.num, TRUE, "return")
      [] OTHER ->
            LET out == FnOutcome(fr.f, m[fr.it].key, m[fr.it].val)
                fr2 == Invoke(fr, m[fr.it].key)
                m2 == MapAssignAt(m, fr.it,
                                  FnValue(fr.f, m[fr.it].key, m[fr.it].val))
                m3 == IF out = "true" THEN MapEraseAt(m2, fr.it) ELSE m2
                n == IF out = "true" THEN fr.num + 1 ELSE fr.num
            IN  IF out = "throw"
                   THEN Throw(m, fr2)
                   ELSE IF fr.it + 1 < End(m3)
                           THEN Goto(m3, [fr2 EXCEPT !.it = fr.it + 1, !.num = n], 468)
                           ELSE Return(m3, fr2, n, TRUE, "return")

\* delete_if(f), lines 461-476: one callback a step; erase(it) hands back the
\* position after the erased entry, which is the erased entry's own position.
delete_if(m, fr) ==
    CASE fr.line = 467 ->
            IF Begin(m) # End(m)
               THEN Goto(m, [fr EXCEPT !.it = Begin(m)], 468)
               ELSE Return(m, fr, fr.num, TRUE, "return")
      [] OTHER ->
            LET out == FnOutcome(fr.f, m[fr.it].key, m[fr.it].val)
                fr2 == Invoke(fr, m[fr.it].key)
                m2 == MapAssignAt(m, fr.it,
                                  FnValue(fr.f, m[fr.it].key, m[fr.it].val))
                m3 == IF out = "true" THEN MapEraseAt(m2, fr.it) ELSE m2
                it == IF out = "true" THEN fr.it ELSE fr.it + 1
                n == IF out = "true" THEN fr.num + 1 ELSE fr.num
            IN  IF out = "throw"
                   THEN Throw(m, fr2)
                   ELSE IF it # End(m3)
                           THEN Goto(m3, [fr2 EXCEPT !.it = it, !.num = n], 468)
                           ELSE Return(m3, fr2, n, TRUE, "return")

\* The next statement of the body frame fr is in.
BodyStep(m, fr) ==
    CASE fr.op = "find"            -> find(m, fr)
      [] fr.op = "lower_bound"     -> lower_bound(m, fr)
      [] fr.op = "lower_bound_key" -> lower_bound_key(m, fr)
      [] fr.op = "findInfimum"     -> findInfimum(m, fr)
      [] fr.op = "findInfimum_key" -> findInfimum_key(m, fr)
      [] fr.op = "size"            -> size(m, fr)
      [] fr.op = "empty"           -> empty(m, fr)
      [] fr.op = "getKeyList"      -> getKeyList(m, fr)
      [] fr.op = "emplace"         -> emplace(m, fr)
      [] fr.op = "createInPlace"   -> createInPlace(m, fr)
      [] fr.op = "replace"         -> replace(m, fr)
      [] fr.op = "erase"           -> erase(m, fr)
      [] fr.op = "remove"          -> remove(m, fr)
      [] fr.op = "perform"         -> perform(m, fr)
      [] fr.op = "perform_ro"      -> perform_ro(m, fr)
      [] fr.op = "clear"           -> clear(m, fr)
      [] fr.op = "for_each_ro"     -> for_each_ro(m, fr)
      [] fr.op = "for_each"        -> for_each(m, fr)
      [] fr.op = "delete_if"       -> delete_if(m, fr)
      [] OTHER                     -> Return(m, fr, 0, FALSE, "none")

\* A body run from fr to its end with nothing in between: what one thread
\* alone makes of the call.
RECURSIVE RunBody(_, _)
RunBody(m, fr) ==
    IF fr.line = 0
       THEN [map |-> m, fr |-> fr]
       ELSE RunBody(BodyStep(m, fr).map, BodyStep(m, fr).fr)

\* ------------------------------------------------- threads using a TSMap

Init ==
    /\ m_map = <<>>
    /\ m_read = Free
    /\ m_mutex = Free
    /\ readers = 0
    /\ pc = [t \in Threads |-> "idle"]
    /\ frame = [t \in Threads |-> NoFrame]
    /\ ref_map = <<>>
    /\ ref_ret = [t \in Threads |-> NoRet]
    /\ lastExit = "none"
    /\ pre = [t \in Threads |-> <<>>]
    /\ hist = [k \in Keys |-> NoHist]

\* A thread calls a public operation: the operation's first act is to construct
\* its guard, which calls lock() or lock_shared().  Nothing the guard does reads
\* the operation's arguments, so they enter the state when the body starts.
Call(t) ==
    /\ pc[t] = "idle"
    /\ \E op \in Ops :
          pc' = [pc EXCEPT ![t] = IF Guard(op) = "lock_guard"
                                     THEN "lock" ELSE "lock_shared"]
    /\ UNCHANGED <<lockVars, mapVars>>

\* std::lock_guard's constructor, in lock(): the thread becomes the pending writer.
GuardPending(t) ==
    /\ pc[t] = "lock"
    /\ lock_pending(t)
    /\ pc' = [pc EXCEPT ![t] = "pending"]
    /\ UNCHANGED mapVars

\* The body of call c starts: the reference execution runs the whole call here.
Start(t, c) ==
    /\ pc' = [pc EXCEPT ![t] = "body"]
    /\ frame' = [frame EXCEPT ![t] = c]
    /\ ref_map' = RunBody(ref_map, c).map
    /\ ref_ret' = [ref_ret EXCEPT ![t] = RunBody(ref_map, c).fr.ret]
    /\ pre' = [pre EXCEPT ![t] = m_map]
    /\ UNCHANGED <<m_map, lastExit, hist>>

\* std::lock_guard's constructor returns from lock().
GuardLock(t) ==
    /\ pc[t] = "pending"
    /\ lock(t)
    /\ \E c \in Calls : Guard(c.op) = "lock_guard" /\ Start(t, c)

\* acl::shared_lock's constructor returns from lock_shared().
GuardLockShared(t) ==
    /\ pc[t] = "lock_shared"
    /\ lock_shared(t)
    /\ \E c \in Calls : Guard(c.op) = "shared_lock" /\ Start(t, c)

\* One statement of the body.
Statement(t) ==
    /\ pc[t] = "body"
    /\ frame[t].line # 0
    /\ m_map' = BodyStep(m_map, frame[t]).map
    /\ frame' = [frame EXCEPT ![t] = BodyStep(m_map, frame[t]).fr]
    /\ UNCHANGED <<lockVars, pc, ref_map, ref_ret, lastExit, pre, hist>>

\* A guard that is released by a statement at the end of the body, which an
\* exception jumps over.
GuardSkippedByThrow(t) ==
    /\ pc[t] = "body"
    /\ frame[t].line = 0
    /\ IF frame[t].ret.how = "throw"
          THEN UNCHANGED lockVars
          ELSE IF Guard(frame[t].op) = "lock_guard" THEN unlock(t) ELSE unlock_shared(t)
    /\ pc' = [pc EXCEPT ![t] = "idle"]
    /\ frame' = [frame EXCEPT ![t] = NoFrame]
    /\ ref_ret' = [ref_ret EXCEPT ![t] = NoRet]
    /\ pre' = [pre EXCEPT ![t] = <<>>]
    /\ UNCHANGED <<m_map, ref_map>>

\* The guard's destructor: it runs however the body was left (return, early
\* return, exception), and the call is over.
GuardRelease(t) ==
    /\ pc[t] = "body"
    /\ frame[t].line = 0
    /\ IF Guard(frame[t].op) = "lock_guard" THEN unlock(t) ELSE unlock_shared(t)
    /\ pc' = [pc EXCEPT ![t] = "idle"]
    /\ frame' = [frame EXCEPT ![t] = NoFrame]
    /\ ref_ret' = [ref_ret EXCEPT ![t] = NoRet]
    /\ pre' = [pre EXCEPT ![t] = <<>>]
    /\ UNCHANGED <<m_map, ref_map>>

\* What the call that is over leaves in the history of each key: an emplace
\* of the key is recorded with its arguments and its answer, and the record
\* of a key is dropped when another call removed the key or wrote its value.
HistAfter(h, fr, before, after) ==
    [k \in Keys |->
        IF fr.op = "emplace" /\ fr.k = k /\ fr.ret.how # "throw"
           THEN [set |-> TRUE, v |-> fr.v, force |-> fr.force, ok |-> fr.ret.ok]
           ELSE IF /\ k \in KeysOf(before)
                   /\ k \in KeysOf(after)
                   /\ after[MapFind(after, k)].val = before[MapFind(before, k)].val
                   THEN h[k]
                   ELSE NoHist]

\* The call returns to its caller.
Leave(t) ==
    /\ GuardRelease(t)
    /\ lastExit' = frame[t].ret.how
    /\ UNCHANGED hist

Next ==
    \E t \in Threads :
        \/ Call(t)
        \/ GuardPending(t)
        \/ GuardLock(t)
        \/ GuardLockShared(t)
        \/ Statement(t)
        \/ Leave(t)

Spec == Init /\ [][Next]_vars

\* The call returns to its caller, and the history of the keys is brought up
\* to date (only a call under std::lock_guard can have written).
LeaveRecorded(t) ==
    /\ GuardRelease(t)
    /\ hist' = IF Guard(frame[t].op) = "lock_guard"
                  THEN HistAfter(hist, frame[t], pre[t], m_map)
                  ELSE hist
    /\ UNCHANGED lastExit

\* The same threads, with the history of the emplace calls kept.
NextHist ==
    \E t \in Threads :
        \/ Call(t)
        \/ GuardPending(t)
        \/ GuardLock(t)
        \/ GuardLockShared(t)
        \/ Statement(t)
        \/ LeaveRecorded(t)

SpecHist == Init /\ [][NextHist]_vars

\* --------------------------------------------- one thread using a TSMap

\* The keys of the calls of a single thread: with no other thread in the way
\* the map can be larger.
SerialKeys == 1..MaxSerialKey

\* std::lock_guard's constructor returns and the body of a call starts.
SerialGuardLock(t) ==
    /\ pc[t] = "pending"
    /\ lock(t)
    /\ \E c \in CallsOver(SerialKeys) : Guard(c.op) = "lock_guard" /\ Start(t, c)

\* acl::shared_lock's constructor returns and the body of a call starts.
SerialGuardLockShared(t) ==
    /\ pc[t] = "lock_shared"
    /\ lock_shared(t)
    /\ \E c \in CallsOver(SerialKeys) : Guard(c.op) = "shared_lock" /\ Start(t, c)

\* Thread 1 calls the operations one after the other.
NextSerial ==
    \/ Call(1)
    \/ GuardPending(1)
    \/ SerialGuardLock(1)
    \/ SerialGuardLockShared(1)
    \/ Statement(1)
    \/ Leave(1)

SpecSerial == Init /\ [][NextSerial]_vars

\* ------------------------------- callbacks that call back into the map

\* Callbacks that call an operation of the same map before they answer true:
\* "calls_find" calls find(k), "calls_emplace" calls emplace(k, Value{}).
ReentrantFns == {"calls_find", "calls_emplace"}

\* The calls that hand such a callback to an operation that runs callbacks, and
\* the calls that fill the map.
ReentrantCalls ==
    {Enter(op, k, 0, FALSE, f) :
        op \in {"erase", "perform", "perform_ro"}, k \in Keys, f \in ReentrantFns}
    \cup {Enter(op, 0, 0, FALSE, f) :
             op \in {"for_each", "for_each_ro", "delete_if"}, f \in ReentrantFns}
    \cup {Enter("emplace", k, v, FALSE, "none") : k \in Keys, v \in Vals}
    \cup {Enter("find", k, 0, FALSE, "none") : k \in Keys}

\* The statement of each operation that calls f.
AtCallback(fr) ==
    \/ fr.op = "erase"       /\ fr.line = 328
    \/ fr.op = "perform"     /\ fr.line = 373
    \/ fr.op = "perform_ro"  /\ fr.line = 393
    \/ fr.op = "for_each_ro" /\ fr.line = 425
    \/ fr.op = "for_each"    /\ fr.line = 446
    \/ fr.op = "delete_if"   /\ fr.line = 468

\* The key f is called with.
CallbackKey(m, fr) ==
    IF fr.op \in {"erase", "perform", "perform_ro"} THEN fr.k ELSE m[fr.it].key

\* std::lock_guard's constructor returns and the body of a call starts.
ReentrantGuardLock(t) ==
    /\ pc[t] = "pending"
    /\ lock(t)
    /\ \E c \in ReentrantCalls : Guard(c.op) = "lock_guard" /\ Start(t, c)

\* acl::shared_lock's constructor returns and the body of a call starts.
ReentrantGuardLockShared(t) ==
    /\ pc[t] = "lock_shared"
    /\ lock_shared(t)
    /\ \E c \in ReentrantCalls : Guard(c.op) = "shared_lock" /\ Start(t, c)

\* A statement that does not call a callback of ReentrantFns.
PlainStatement(t) ==
    /\ ~(AtCallback(frame[t]) /\ frame[t].f \in ReentrantFns)
    /\ Statement(t)

\* The callback is called and calls an operation of the map, which constructs
\* its guard: find calls lock_shared(), emplace calls lock().
CallbackReenters(t) ==
    /\ pc[t] = "body"
    /\ AtCallback(frame[t]) /\ frame[t].f \in ReentrantFns
    /\ pc' = [pc EXCEPT ![t] = IF frame[t].f = "calls_emplace"
                                  THEN "inner_lock" ELSE "inner_lock_shared"]
    /\ UNCHANGED <<lockVars, mapVars>>

\* The inner emplace, in lock(): the thread closes the gate.
InnerPending(t) ==
    /\ pc[t] = "inner_lock"
    /\ lock_pending(t)
    /\ pc' = [pc EXCEPT ![t] = "inner_pending"]
    /\ UNCHANGED mapVars

\* The guard of the inner call is constructed: lock() or lock_shared() returns.
InnerAcquire(t) ==
    /\ pc[t] \in {"inner_pending", "inner_lock_shared"}
    /\ IF pc[t] = "inner_pending" THEN lock(t) ELSE lock_shared(t)
    /\ pc' = [pc EXCEPT ![t] = "inner_body"]
    /\ UNCHANGED mapVars

\* The inner call runs its body and releases its guard, the callback answers
\* true, and the outer operation goes on from the statement that called it.
InnerReturn(t) ==
    /\ pc[t] = "inner_body"
    /\ IF frame[t].f = "calls_emplace" THEN unlock(t) ELSE unlock_shared(t)
    /\ LET key == CallbackKey(m_map, frame[t])
           inner == IF frame[t].f = "calls_emplace"
                       THEN Enter("emplace", key, DefaultValue, FALSE, "none")
                       ELSE Enter("find", key, 0, FALSE, "none")
           m == RunBody(m_map, inner).map
       IN  /\ m_map' = BodyStep(m, frame[t]).map
           /\ frame' = [frame EXCEPT ![t] = BodyStep(m, frame[t]).fr]
    /\ pc' = [pc EXCEPT ![t] = "body"]
    /\ UNCHANGED <<ref_map, ref_ret, lastExit, pre, hist>>

NextReentrant ==
    \E t \in Threads :
        \/ Call(t)
        \/ GuardPending(t)
        \/ ReentrantGuardLock(t)
        \/ ReentrantGuardLockShared(t)
        \/ PlainStatement(t)
        \/ CallbackReenters(t)
        \/ InnerPending(t)
        \/ InnerAcquire(t)
        \/ InnerReturn(t)
        \/ Leave(t)

SpecReentrant == Init /\ [][NextReentrant]_vars

\* ------------------------------------------ threads using a shared_mutex

\* The threads that use a shared_mutex directly: a writer, a holder and a
\* newcomer can be three threads.
LockThreads == 1..NumLockThreads

\* The lock as constructed, and the threads outside every operation.
InitLock ==
    /\ m_map = <<>>
    /\ m_read = Free
    /\ m_mutex = Free
    /\ readers = 0
    /\ pc = [t \in LockThreads |-> "idle"]
    /\ frame = [t \in LockThreads |-> NoFrame]
    /\ ref_map = <<>>
    /\ ref_ret = [t \in Threads |-> NoRet]
    /\ lastExit = "none"
    /\ pre = [t \in Threads |-> <<>>]
    /\ hist = [k \in Keys |-> NoHist]

\* A thread calls lock().
UseLock(t) ==
    /\ pc[t] = "idle"
    /\ pc' = [pc EXCEPT ![t] = "in_lock"]
    /\ UNCHANGED <<lockVars, mapVars>>

UseLockPending(t) ==
    /\ pc[t] = "in_lock"
    /\ lock_pending(t)
    /\ pc' = [pc EXCEPT ![t] = "is_pending"]
    /\ UNCHANGED mapVars

UseLockDone(t) ==
    /\ pc[t] = "is_pending"
    /\ lock(t)
    /\ pc' = [pc EXCEPT ![t] = "exclusive"]
    /\ UNCHANGED mapVars

\* try_lock() and what it answered, kept in the thread's frame.
UseTryLock(t) ==
    /\ pc[t] = "idle"
    /\ \E ok \in BOOLEAN :
          /\ try_lock(t, ok)
          /\ pc' = [pc EXCEPT ![t] = IF ok THEN "exclusive" ELSE "idle"]
          /\ frame' = [frame EXCEPT ![t].ret = [NoRet EXCEPT !.ok = ok, !.how = "try"]]
    /\ UNCHANGED restVars

UseUnlock(t) ==
    /\ pc[t] = "exclusive"
    /\ unlock(t)
    /\ pc' = [pc EXCEPT ![t] = "idle"]
    /\ frame' = [frame EXCEPT ![t] = NoFrame]
    /\ UNCHANGED restVars

\* A thread calls lock_shared().
UseLockShared(t) ==
    /\ pc[t] = "idle"
    /\ pc' = [pc EXCEPT ![t] = "in_lock_shared"]
    /\ UNCHANGED <<lockVars, mapVars>>

UseLockSharedDone(t) ==
    /\ pc[t] = "in_lock_shared"
    /\ lock_shared(t)
    /\ pc' = [pc EXCEPT ![t] = "shared"]
    /\ UNCHANGED mapVars

UseTryLockShared(t) ==
    /\ pc[t] = "idle"
    /\ \E ok \in BOOLEAN :
          /\ try_lock_shared(t, ok)
          /\ pc' = [pc EXCEPT ![t] = IF ok THEN "shared" ELSE "idle"]
          /\ frame' = [frame EXCEPT ![t].ret = [NoRet EXCEPT !.ok = ok, !.how = "try"]]
    /\ UNCHANGED restVars

UseUnlockShared(t) ==
    /\ pc[t] = "shared"
    /\ unlock_shared(t)
    /\ pc' = [pc EXCEPT ![t] = "idle"]
    /\ frame' = [frame EXCEPT ![t] = NoFrame]
    /\ UNCHANGED restVars

NextLock ==
    \E t \in LockThreads :
        \/ UseLock(t)
        \/ UseLockPending(t)
        \/ UseLockDone(t)
        \/ UseTryLock(t)
        \/ UseUnlock(t)
        \/ UseLockShared(t)
        \/ UseLockSharedDone(t)
        \/ UseTryLockShared(t)
        \/ UseUnlockShared(t)

SpecLock == InitLock /\ [][NextLock]_vars

\* Threads that are weakly scheduled once they can go on, a gate (a std::mutex)
\* that serves every thread that keeps asking for it, and no promise that a
\* thread calls again.
Fairness ==
    \A t \in Threads :
        /\ SF_vars(GuardPending(t))
        /\ WF_vars(GuardLock(t))
        /\ WF_vars(Statement(t))
        /\ WF_vars(Leave(t))

FairSpec == Init /\ [][Next]_vars /\ Fairness

\* ----------------------------------------------------------- the claims

\* Who holds the lock, by where the threads are (not by the lock's own state).
ExclusiveHolders ==
    {t \in DOMAIN pc :
        \/ pc[t] = "exclusive"
        \/ pc[t] = "body" /\ Guard(frame[t].op) = "lock_guard"}

SharedHolders ==
    {t \in DOMAIN pc :
        \/ pc[t] = "shared"
        \/ pc[t] = "body" /\ Guard(frame[t].op) = "shared_lock"}

\* A thread that called lock() or lock_shared() and has not acquired yet.
Blocked(t) == pc[t] \in {"lock", "pending", "lock_shared"}

\* The body of t's call has run to its return (or throw); the guard still holds.
Returned(t) == pc[t] = "body" /\ frame[t].line = 0

\* The stored value of key k in map m (k is a key of m).
ValueOf(m, k) == m[MapFind(m, k)].val

\* C1: under any interleaving of lock, try_lock, unlock, lock_shared,
\* try_lock_shared and unlock_shared there is at most one exclusive holder, and
\* while there is one there is no shared holder (and readers is 0).
C1_MutualExclusion ==
    /\ Cardinality(ExclusiveHolders) <= 1
    /\ ExclusiveHolders # {} => SharedHolders = {} /\ readers = 0

\* An exclusive holder while another thread is waiting in lock_shared().
C1_Witness ==
    \E t, u \in Threads : pc[t] = "exclusive" /\ pc[u] = "in_lock_shared"

C3_LockReleased ==
    (\A t \in Threads : pc[t] = "idle")
        => readers = 0 /\ m_mutex = Free /\ m_read = Free

\* No thread is inside an operation and the last call was left by an exception
\* that a callback threw.
C3_Witness ==
    /\ \A t \in Threads : pc[t] = "idle"
    /\ lastExit = "throw"
    /\ readers = 0 /\ m_mutex = Free /\ m_read = Free

\* A step of a call that is under way (calling is not one).
Progress(t) ==
    \/ GuardPending(t)
    \/ GuardLock(t)
    \/ GuardLockShared(t)
    \/ Statement(t)
    \/ Leave(t)

\* C4: with callbacks that end and stay out of the map, in no reachable state
\* is a thread blocked on the lock while no call under way can take a step.
C4_NoDeadlock ==
    (\E t \in Threads : Blocked(t)) => \E u \in Threads : ENABLED Progress(u)

\* A thread is blocked by the exclusive holder, which is in its body.
C4_Witness ==
    \E t, u \in Threads :
        pc[t] \in {"lock", "lock_shared"} /\ pc[u] = "body" /\ m_mutex = u

\* C5: every call returns what it returns in the single-threaded execution of
\* the calls in the order in which their bodies started (a point between each
\* call's invocation and its return), and whenever no writing body is under
\* way the map is the map of that execution.
C5_Linearizable ==
    /\ \A t \in Threads : Returned(t) => frame[t].ret = ref_ret[t]
    /\ (\A t \in Threads :
           pc[t] = "body" =>
              frame[t].line = 0 \/ frame[t].op \in ReadOps)
          => m_map = ref_map

\* An erase has removed an entry while another thread's call waits for the lock.
C5_Witness ==
    \E t, u \in Threads :
        /\ Returned(t) /\ frame[t].op = "erase" /\ frame[t].ret.ok
        /\ pc[u] \in {"lock", "lock_shared"}
        /\ m_map = ref_map

\* C6: while the body of an operation that takes the lock exclusively runs, no
\* other body runs; and the map a for_each_ro scan walks stays as it was when
\* the scan started.
C6_ExclusiveAlone ==
    /\ \A t \in Threads :
          pc[t] = "body" /\ frame[t].op \in WriteOps
             => \A u \in Threads \ {t} : pc[u] # "body"
    /\ \A t \in Threads :
          pc[t] = "body" /\ frame[t].op = "for_each_ro" => m_map = pre[t]

\* A for_each_ro scan is between two callbacks while a writer is pending.
C6_Witness ==
    \E t, u \in Threads :
        /\ pc[t] = "body" /\ frame[t].op = "for_each_ro"
        /\ frame[t].line # 0 /\ frame[t].it = 2
        /\ pc[u] = "pending"

\* C7 as stated: emplace(k, v2, force=false), coming after an emplace(k, v1)
\* with no other write to k in between, returns false, leaves v1 under k and
\* leaves the size of the map as it was.
C7_AsStated ==
    \A t \in Threads :
        (/\ Returned(t) /\ frame[t].op = "emplace" /\ ~frame[t].force
         /\ hist[frame[t].k].set)
           => /\ ~frame[t].ret.ok
              /\ ValueOf(m_map, frame[t].k) = hist[frame[t].k].v
              /\ Len(m_map) = Len(pre[t])

\* C7, amended: the same, when the first emplace returned true.
C7_SecondEmplaceRefused ==
    \A t \in Threads :
        (/\ Returned(t) /\ frame[t].op = "emplace" /\ ~frame[t].force
         /\ hist[frame[t].k].set /\ hist[frame[t].k].ok)
           => /\ ~frame[t].ret.ok
              /\ ValueOf(m_map, frame[t].k) = hist[frame[t].k].v
              /\ Len(m_map) = Len(pre[t])

\* An unforced emplace of another value was refused after an emplace that
\* had stored the first value.
C7_Witness ==
    \E t \in Threads :
        /\ Returned(t) /\ frame[t].op = "emplace" /\ ~frame[t].force
        /\ hist[frame[t].k].set /\ hist[frame[t].k].ok
        /\ hist[frame[t].k].v # frame[t].v
        /\ ~frame[t].ret.ok

C9_ReturnsWhetherAbsent ==
    \A t \in Threads :
        Returned(t) /\ frame[t].op = "emplace"
           => frame[t].ret.ok = (frame[t].k \notin KeysOf(pre[t]))

\* C10 as stated: find(k), coming after an emplace(k, v, force=false) with no
\* removal of k in between, returns (v, true).
C10_AsStated ==
    \A t \in Threads :
        (/\ Returned(t) /\ frame[t].op = "find"
         /\ hist[frame[t].k].set /\ ~hist[frame[t].k].force)
           => frame[t].ret.ok /\ frame[t].ret.val = hist[frame[t].k].v

\* C10, amended: the same, when the emplace returned true and nothing else
\* wrote k in between.
C10_FindAfterEmplace ==
    \A t \in Threads :
        (/\ Returned(t) /\ frame[t].op = "find"
         /\ hist[frame[t].k].set /\ ~hist[frame[t].k].force /\ hist[frame[t].k].ok)
           => frame[t].ret.ok /\ frame[t].ret.val = hist[frame[t].k].v

\* A find has returned the value of an unforced emplace that stored it.
C10_Witness ==
    \E t \in Threads :
        /\ Returned(t) /\ frame[t].op = "find"
        /\ hist[frame[t].k].set /\ ~hist[frame[t].k].force /\ hist[frame[t].k].ok
        /\ frame[t].ret.ok /\ frame[t].ret.val = MaxVal

\* C11 as stated: replace(k, v, force=true) on a map that holds k stores v under
\* k and returns (v, false).
C11_AsStated ==
    \A t \in Threads :
        (/\ Returned(t) /\ frame[t].op = "replace" /\ frame[t].force
         /\ frame[t].k \in KeysOf(pre[t]))
           => /\ ValueOf(m_map, frame[t].k) = frame[t].v
              /\ frame[t].ret.val = frame[t].v
              /\ ~frame[t].ret.ok

\* C11, amended: replace(k, v, force=true) on a map that holds k stores v under
\* k and returns (the value k had before the call, false).
C11_ReplaceReturnsPrevious ==
    \A t \in Threads :
        (/\ Returned(t) /\ frame[t].op = "replace" /\ frame[t].force
         /\ frame[t].k \in KeysOf(pre[t]))
           => /\ ValueOf(m_map, frame[t].k) = frame[t].v
              /\ frame[t].ret.val = ValueOf(pre[t], frame[t].k)
              /\ ~frame[t].ret.ok

\* A forced replace has overwritten a value that differs from its argument.
C11_Witness ==
    \E t \in Threads :
        /\ Returned(t) /\ frame[t].op = "replace" /\ frame[t].force
        /\ frame[t].k \in KeysOf(pre[t])
        /\ ValueOf(pre[t], frame[t].k) # frame[t].v
        /\ ValueOf(m_map, frame[t].k) = frame[t].v

\* C12: replace(k, v, force) returns true exactly when k was absent before the
\* call; absent, v is inserted and (v, true) returned for either force; present
\* and force false, the map is unchanged and (stored value, false) returned.
C12_ReplaceReportsInsertion ==
    \A t \in Threads :
        Returned(t) /\ frame[t].op = "replace"
           => /\ frame[t].ret.ok = (frame[t].k \notin KeysOf(pre[t]))
              /\ frame[t].k \notin KeysOf(pre[t])
                    => /\ frame[t].ret.val = frame[t].v
                       /\ m_map = MapEmplace(pre[t], frame[t].k, frame[t].v).map
                       /\ ValueOf(m_map, frame[t].k) = frame[t].v
                       /\ Len(m_map) = Len(pre[t]) + 1
              /\ frame[t].k \in KeysOf(pre[t]) /\ ~frame[t].force
                    => /\ frame[t].ret.val = ValueOf(pre[t], frame[t].k)
                       /\ m_map = pre[t]

\* An unforced replace has left alone a value that differs from its argument.
C12_Witness ==
    \E t \in Threads :
        /\ Returned(t) /\ frame[t].op = "replace" /\ ~frame[t].force
        /\ frame[t].k \in KeysOf(pre[t])
        /\ ValueOf(pre[t], frame[t].k) # frame[t].v
        /\ ~frame[t].ret.ok /\ m_map = pre[t]

\* erase(k, f) is allowed to remove k from map m: k is present and f is unset
\* or answers true for the stored value.
EraseAllowed(m, k, f) ==
    /\ k \in KeysOf(m)
    /\ f = "none" \/ FnOutcome(f, k, ValueOf(m, k)) = "true"

\* C13 as stated: erase(k, fn) removes the entry of k and returns true iff k is
\* present and fn is unset or answers true; otherwise it returns false and the
\* map, the value under k included, is as before; fn is not invoked when k is
\* absent.
C13_AsStated ==
    \A t \in Threads :
        Returned(t) /\ frame[t].op = "erase" /\ frame[t].ret.how # "throw"
           => /\ frame[t].ret.ok = EraseAllowed(pre[t], frame[t].k, frame[t].f)
              /\ frame[t].ret.ok => m_map = MapErase(pre[t], frame[t].k)
              /\ ~frame[t].ret.ok => m_map = pre[t]
              /\ frame[t].k \notin KeysOf(pre[t]) => frame[t].calls = <<>>

\* C13, amended: the same, but after a veto the value under k is what fn left
\* there through its Value&; no entry is removed and no other value changes.
C13_EraseUnlessVetoed ==
    \A t \in Threads :
        Returned(t) /\ frame[t].op = "erase" /\ frame[t].ret.how # "throw"
           => /\ frame[t].ret.ok = EraseAllowed(pre[t], frame[t].k, frame[t].f)
              /\ frame[t].ret.ok => m_map = MapErase(pre[t], frame[t].k)
              /\ ~frame[t].ret.ok /\ frame[t].k \notin KeysOf(pre[t])
                    => m_map = pre[t] /\ frame[t].calls = <<>>
              /\ ~frame[t].ret.ok /\ frame[t].k \in KeysOf(pre[t])
                    => /\ frame[t].calls = <<frame[t].k>>
                       /\ m_map = MapAssignAt(pre[t], MapFind(pre[t], frame[t].k),
                                      FnValue(frame[t].f, frame[t].k,
                                              ValueOf(pre[t], frame[t].k)))

\* An erase was vetoed by a callback that changed the value of the entry.
C13_Witness ==
    \E t \in Threads :
        /\ Returned(t) /\ frame[t].op = "erase" /\ frame[t].ret.how = "veto"
        /\ ~frame[t].ret.ok
        /\ KeysOf(m_map) = KeysOf(pre[t])
        /\ m_map # pre[t]

\* C14: remove(k) on a map without k returns (Value{}, false) and leaves the
\* map as it was; on a map with k it returns (the value of k, true), k is gone
\* and every other entry is as before; and while its body runs the thread
\* holds the lock exclusively, with no other body running.
C14_RemoveReturnsValue ==
    \A t \in Threads :
        /\ (Returned(t) /\ frame[t].op = "remove" /\ frame[t].k \notin KeysOf(pre[t]))
              => /\ frame[t].ret.val = DefaultValue /\ ~frame[t].ret.ok
                 /\ m_map = pre[t]
        /\ (Returned(t) /\ frame[t].op = "remove" /\ frame[t].k \in KeysOf(pre[t]))
              => /\ frame[t].ret.val = ValueOf(pre[t], frame[t].k) /\ frame[t].ret.ok
                 /\ frame[t].k \notin KeysOf(m_map)
                 /\ m_map = MapEraseAt(pre[t], MapFind(pre[t], frame[t].k))
        /\ (pc[t] = "body" /\ frame[t].op = "remove")
              => /\ m_mutex = t /\ readers = 0
                 /\ \A u \in Threads \ {t} : pc[u] # "body"

\* A remove has taken one of two entries out of the map and returned its value
\* while another thread waits for the lock.
C14_Witness ==
    \E t, u \in Threads :
        /\ Returned(t) /\ frame[t].op = "remove" /\ frame[t].ret.ok
        /\ frame[t].ret.val = MaxVal
        /\ Len(pre[t]) = 2 /\ Len(m_map) = 1
        /\ pc[u] \in {"lock", "lock_shared"}

\* The stored keys of map m that are not greater than k.
KeysUpTo(m, k) == {key \in KeysOf(m) : key <= k}

\* The greatest key of a non-empty set of keys.
Greatest(S) == CHOOSE x \in S : \A y \in S : y <= x

\* C15: findInfimum(k) and findInfimum_key(k) report found exactly when some
\* stored key is <= k, and then return the entry of the greatest such key (of
\* k itself when k is stored); they report not found exactly when the map is
\* empty or every stored key is greater than k.
C15_Infimum ==
    \A t \in Threads :
        Returned(t) /\ frame[t].op \in {"findInfimum", "findInfimum_key"}
           => /\ frame[t].ret.ok = (KeysUpTo(pre[t], frame[t].k) # {})
              /\ ~frame[t].ret.ok =
                    (pre[t] = <<>> \/ \A key \in KeysOf(pre[t]) : key > frame[t].k)
              /\ frame[t].ret.ok =>
                    /\ frame[t].ret.val =
                          ValueOf(pre[t], Greatest(KeysUpTo(pre[t], frame[t].k)))
                    /\ frame[t].op = "findInfimum_key" =>
                          frame[t].ret.key = Greatest(KeysUpTo(pre[t], frame[t].k))
                    /\ frame[t].k \in KeysOf(pre[t]) =>
                          frame[t].ret.val = ValueOf(pre[t], frame[t].k)
              /\ ~frame[t].ret.ok => frame[t].ret.val = DefaultValue

\* findInfimum was asked for a key between two stored keys and returned the
\* value of the smaller one, which differs from the value of the greater one.
C15_Witness ==
    \E t \in Threads :
        /\ Returned(t) /\ frame[t].op = "findInfimum" /\ frame[t].k = 2
        /\ KeysOf(pre[t]) = {1, 3}
        /\ frame[t].ret.ok /\ frame[t].ret.val = ValueOf(pre[t], 1)
        /\ ValueOf(pre[t], 1) # ValueOf(pre[t], 3)

\* The keys of map m in the order of the map.
KeySeq(m) == [i \in 1..Len(m) |-> m[i].key]

\* The positions of map m whose entries callback f answers true for.
Accepted(m, f) == {i \in 1..Len(m) : FnOutcome(f, m[i].key, m[i].val) = "true"}

\* C16: a delete_if(fn) that returns has invoked fn once on each entry the map
\* had at the start, in ascending key order, has erased exactly the entries fn
\* answered true for, has left every other entry in the map (with the value fn
\* left in it), and returns the number of entries erased.
C16_DeleteIf ==
    \A t \in Threads :
        (Returned(t) /\ frame[t].op = "delete_if" /\ frame[t].ret.how = "return")
           => /\ frame[t].calls = KeySeq(pre[t])
              /\ KeysOf(m_map) =
                    {pre[t][i].key : i \in (1..Len(pre[t])) \ Accepted(pre[t], frame[t].f)}
              /\ Len(m_map) = Len(pre[t]) - Cardinality(Accepted(pre[t], frame[t].f))
              /\ \A i \in (1..Len(pre[t])) \ Accepted(pre[t], frame[t].f) :
                    ValueOf(m_map, pre[t][i].key)
                       = FnValue(frame[t].f, pre[t][i].key, pre[t][i].val)
              /\ frame[t].ret.val = Cardinality(Accepted(pre[t], frame[t].f))

\* delete_if with the predicate "the key is even" has erased key 2 of the keys
\* 1, 2, 3 and returned 1.
C16_Witness ==
    \E t \in Threads :
        /\ Returned(t) /\ frame[t].op = "delete_if" /\ frame[t].f = "even"
        /\ KeySeq(pre[t]) = <<1, 2, 3>>
        /\ KeySeq(m_map) = <<1, 3>>
        /\ frame[t].ret.val = 1

\* C17: perform(k, fn) and perform_ro(k, fn) return false and leave fn alone
\* when k is absent or fn is unset; otherwise they invoke fn once, on the entry
\* of k, and return what fn returned; the lock is held while the body runs
\* (exclusively by perform, shared by perform_ro); the set of keys is unchanged.
C17_Perform ==
    \A t \in Threads :
        /\ (Returned(t) /\ frame[t].op \in {"perform", "perform_ro"}
               /\ frame[t].ret.how # "throw")
              => IF frame[t].k \notin KeysOf(pre[t]) \/ frame[t].f = "none"
                    THEN ~frame[t].ret.ok /\ frame[t].calls = <<>> /\ m_map = pre[t]
                    ELSE /\ frame[t].calls = <<frame[t].k>>
                         /\ frame[t].ret.ok =
                               (FnOutcome(frame[t].f, frame[t].k,
                                          ValueOf(pre[t], frame[t].k)) = "true")
        /\ (pc[t] = "body" /\ frame[t].op \in {"perform", "perform_ro"})
              => /\ KeysOf(m_map) = KeysOf(pre[t])
                 /\ Len(frame[t].calls) <= 1
                 /\ frame[t].op = "perform" => m_mutex = t /\ readers = 0
                 /\ frame[t].op = "perform_ro" => m_mutex = Free /\ readers >= 1

\* perform has run a callback that wrote the value of the entry and reported
\* success, while another thread waits for the lock.
C17_Witness ==
    \E t, u \in Threads :
        /\ Returned(t) /\ frame[t].op = "perform" /\ frame[t].f = "bump"
        /\ frame[t].ret.ok /\ frame[t].calls = <<frame[t].k>>
        /\ ValueOf(m_map, frame[t].k) # ValueOf(pre[t], frame[t].k)
        /\ pc[u] \in {"lock", "lock_shared"}

\* C18: a for_each(fn) or for_each_ro(fn) that returns has invoked fn once for
\* every entry, in ascending key order, and returns the number of calls fn
\* answered true; from the first statement of the scan to its return the lock
\* is held (exclusively by for_each, shared by for_each_ro) and the set of
\* keys is as it was.
C18_ForEach ==
    \A t \in Threads :
        /\ (Returned(t) /\ frame[t].op \in {"for_each", "for_each_ro"}
               /\ frame[t].ret.how = "return")
              => /\ frame[t].calls = KeySeq(pre[t])
                 /\ frame[t].ret.val = Cardinality(Accepted(pre[t], frame[t].f))
        /\ (pc[t] = "body" /\ frame[t].op \in {"for_each", "for_each_ro"})
              => /\ KeysOf(m_map) = KeysOf(pre[t])
                 /\ frame[t].calls = SubSeq(KeySeq(pre[t]), 1, Len(frame[t].calls))
                 /\ frame[t].op = "for_each" => m_mutex = t /\ readers = 0
                 /\ frame[t].op = "for_each_ro" => m_mutex = Free /\ readers >= 1

\* for_each with the callback "the key is even" has visited keys 1 and 2 and
\* returned 1, while another thread waits for the lock.
C18_Witness ==
    \E t, u \in Threads :
        /\ Returned(t) /\ frame[t].op = "for_each" /\ frame[t].f = "even"
        /\ frame[t].calls = <<1, 2>>
        /\ frame[t].ret.val = 1
        /\ pc[u] \in {"lock", "lock_shared"}

ReadersInBody == {t \in Threads : pc[t] = "body" /\ frame[t].op \in ReadOps}

\* C20: the body of a reading operation holds the lock shared and not
\* exclusively, so that a thread waiting in lock_shared() while no writer holds
\* or is pending can acquire and run its body next to the readers already
\* inside; readers counts the bodies that read at the same time.
C20_ParallelReads ==
    /\ readers = Cardinality(ReadersInBody)
    /\ ReadersInBody # {} => m_mutex = Free
    /\ \A u \in Threads :
          (/\ pc[u] = "lock_shared"
           /\ \A w \in Threads :
                 pc[w] \notin {"lock", "pending"} /\ w \notin ExclusiveHolders)
             => ENABLED GuardLockShared(u)

\* A find is inside its body while a for_each_ro scan of another thread is
\* between two callbacks: two shared holders.
C20_Witness ==
    \E t, u \in Threads :
        /\ t # u
        /\ pc[t] = "body" /\ frame[t].op = "for_each_ro" /\ frame[t].line = 425
        /\ frame[t].it = 2
        /\ pc[u] = "body" /\ frame[u].op = "find" /\ frame[u].line = 102
        /\ readers = 2

\* A thread whose callback called an operation of the map, which waits for
\* the lock.
InnerWaiting(t) == pc[t] \in {"inner_lock", "inner_pending", "inner_lock_shared"}

StrictlyAscending(s) == \A i, j \in 1..Len(s) : i < j => s[i] < s[j]

\* C22: whatever the threads have called, the map holds at most one entry per
\* key (its keys ascend strictly); a size() that returns gives the number of
\* distinct keys, an empty() that returns gives true exactly when that number
\* is 0, and a getKeyList() that returns gives the keys of the one map state
\* that lasted through its whole body, strictly ascending and without
\* duplicates.
C22_MapView ==
    /\ StrictlyAscending(KeySeq(m_map))
    /\ \A t \in Threads :
          (pc[t] = "body" /\ frame[t].op \in {"size", "empty", "getKeyList"})
             => m_map = pre[t]
    /\ \A t \in Threads :
          (Returned(t) /\ frame[t].ret.how = "return") =>
             /\ frame[t].op = "size"
                   => frame[t].ret.val = Cardinality(KeysOf(m_map))
             /\ frame[t].op = "empty"
                   => frame[t].ret.ok = (Cardinality(KeysOf(m_map)) = 0)
             /\ frame[t].op = "getKeyList"
                   => /\ frame[t].ret.list = KeySeq(m_map)
                      /\ StrictlyAscending(frame[t].ret.list)
                      /\ Len(frame[t].ret.list) = Cardinality(KeysOf(m_map))

\* With two entries in the map, one thread's getKeyList() has returned two
\* keys while the other thread's size() has returned 2.
C22_Witness ==
    \E t, u \in Threads :
        /\ Returned(t) /\ frame[t].op = "getKeyList"
        /\ Len(frame[t].ret.list) = 2
        /\ Returned(u) /\ frame[u].op = "size" /\ frame[u].ret.val = 2
        /\ Len(m_map) = 2

====
